---- MODULE Spec2Model ----
(***************************************************************************)
(* State-machine model of src/imp/openssl.rs: the OpenSSL backend of the   *)
(* TLS wrapper (protocol selector, connector/acceptor builders, handshake  *)
(* wrapper, established stream).  The OpenSSL engine itself is an external *)
(* collaborator; the definitions prefixed Ssl model its interface as the   *)
(* wrapper observes it.                                                    *)
(***************************************************************************)
EXTENDS Integers, Sequences, FiniteSets, TLC

\* ------------------------------------------------------------------------
\* Bounds
\* ------------------------------------------------------------------------
MaxList == 2            \* longest allow-list slice passed to supported_protocols
MaxCalls == 3           \* handshake driving calls per attempt
MaxBytes == 3           \* plaintext bytes each side writes
MaxShutdownIters == 3   \* invocations of the shutdown primitive followed per call
MaxIdentityCalls == 2   \* identity() calls made on the connector builder

\* ------------------------------------------------------------------------
\* Protocol selector (openssl.rs:14-33)
\* ------------------------------------------------------------------------
Protocol == {"Sslv3", "Tlsv10", "Tlsv11", "Tlsv12"}

SSL_OP_NO_SSLV2   == "SSL_OP_NO_SSLV2"
SSL_OP_NO_SSLV3   == "SSL_OP_NO_SSLV3"
SSL_OP_NO_TLSV1   == "SSL_OP_NO_TLSV1"
SSL_OP_NO_TLSV1_1 == "SSL_OP_NO_TLSV1_1"
SSL_OP_NO_TLSV1_2 == "SSL_OP_NO_TLSV1_2"
\* an option bit that is not a protocol-disabling flag
SSL_OP_NO_COMPRESSION == "SSL_OP_NO_COMPRESSION"

ProtocolFlags == {SSL_OP_NO_SSLV2, SSL_OP_NO_SSLV3, SSL_OP_NO_TLSV1,
                  SSL_OP_NO_TLSV1_1, SSL_OP_NO_TLSV1_2}

\* SslOption::all(): every defined option bit
SslOption_all == ProtocolFlags \cup {SSL_OP_NO_COMPRESSION}

\* let ssl_op_no_ssl_mask = ... (lines 16-17, transcribed operand by operand)
\* variant: the mask leaves SSLv2 out
ssl_op_no_ssl_mask_without_sslv2 ==
    {SSL_OP_NO_SSLV3} \cup
    {SSL_OP_NO_TLSV1} \cup {SSL_OP_NO_TLSV1_2} \cup {SSL_OP_NO_TLSV1_2}

ssl_op_no_ssl_mask ==
    {SSL_OP_NO_SSLV2} \cup {SSL_OP_NO_SSLV3} \cup
    {SSL_OP_NO_TLSV1} \cup {SSL_OP_NO_TLSV1_2} \cup {SSL_OP_NO_TLSV1_2}

\* let op = match *protocol { ... } (lines 23-29)
ProtocolOp(protocol) ==
    CASE protocol = "Sslv3"  -> SSL_OP_NO_SSLV3
      [] protocol = "Tlsv10" -> SSL_OP_NO_TLSV1
      [] protocol = "Tlsv11" -> SSL_OP_NO_TLSV1_1
      [] protocol = "Tlsv12" -> SSL_OP_NO_TLSV1_2

\* for protocol in protocols { options &= !op; } (lines 22-31)
RECURSIVE ClearAllowed(_, _)
ClearAllowed(protocols, options) ==
    IF protocols = << >> THEN options
    ELSE ClearAllowed(Tail(protocols), options \ {ProtocolOp(Head(protocols))})

\* variant: the options read before clear_options are not written back
supported_protocols_drops_options(protocols, ctx) ==
    LET cleared == ctx \ SslOption_all
        final   == ClearAllowed(protocols, ssl_op_no_ssl_mask)
    IN  cleared \cup final

\* fn supported_protocols(protocols, ctx): the context's options afterwards
supported_protocols(protocols, ctx) ==
    LET options == ctx                          \* let mut options = ctx.options()
        cleared == ctx \ SslOption_all          \* ctx.clear_options(SslOption::all())
        masked  == options \cup ssl_op_no_ssl_mask
        final   == ClearAllowed(protocols, masked)
    IN  cleared \cup final                      \* ctx.set_options(options)

\* the allow-list slices the callers pass
ProtocolLists == UNION {[1..n -> Protocol] : n \in 0..MaxList}

SeqToSet(s) == {s[i] : i \in 1..Len(s)}

\* ------------------------------------------------------------------------
\* The OpenSSL engine as seen through its interface (external collaborator)
\* ------------------------------------------------------------------------
\* wire versions, ordered: SSLv2 < SSLv3 < TLSv1.0 < TLSv1.1 < TLSv1.2
Versions == 0..4

VersionFlag(v) ==
    CASE v = 0 -> SSL_OP_NO_SSLV2
      [] v = 1 -> SSL_OP_NO_SSLV3
      [] v = 2 -> SSL_OP_NO_TLSV1
      [] v = 3 -> SSL_OP_NO_TLSV1_1
      [] v = 4 -> SSL_OP_NO_TLSV1_2

ProtocolVersion(protocol) ==
    CASE protocol = "Sslv3"  -> 1
      [] protocol = "Tlsv10" -> 2
      [] protocol = "Tlsv11" -> 3
      [] protocol = "Tlsv12" -> 4

\* the versions a context with these options is willing to negotiate
Enabled(options) == {v \in Versions : VersionFlag(v) \notin options}

SetMax(S) == CHOOSE x \in S : \A y \in S : y <= x

Sides == {"client", "server"}
\* the handshake attempts made through the two factories: one connection,
\* and a second one through the same connector and acceptor
Ends == {"client", "server", "client2", "server2"}
Factory(end) == IF end \in {"client", "client2"} THEN "client" ELSE "server"
Peer(side) ==
    CASE side = "client"  -> "server"
      [] side = "server"  -> "client"
      [] side = "client2" -> "server2"
      [] side = "server2" -> "client2"

NoVersion == -1
NoSsl     == [role |-> "none"]
NoError   == "none"

Msg(type, arg) == [type |-> type, arg |-> arg]

\* Ssl::new(ctx) + stream: a fresh engine state over the caller's transport
SslNew(role, options, stream) ==
    [role |-> role, enabled |-> Enabled(options), progress |-> 0,
     version |-> NoVersion, stream |-> stream,
     sent_shutdown |-> FALSE, received_shutdown |-> FALSE, pending |-> << >>]

SslRes(tag, s, error, inq, out) ==
    [tag |-> tag, s |-> s, error |-> error, inq |-> inq, out |-> out]

\* client role, waiting for the server's flight
SslClientRead(s, inq, out) ==
    IF inq = << >> THEN SslRes("Interrupted", s, NoError, inq, out)
    ELSE LET m == Head(inq) IN
         IF m.type = "ServerHello" /\ m.arg \in s.enabled
         THEN SslRes("Ok", [s EXCEPT !.progress = 2, !.version = m.arg],
                     NoError, Tail(inq), out \o <<Msg("ClientFinished", 0)>>)
         ELSE IF m.type = "Alert"
         THEN SslRes("Failure", s, "handshake_alert", Tail(inq), out)
         ELSE SslRes("Failure", s, "unexpected_message", Tail(inq),
                     out \o <<Msg("Alert", 0)>>)

\* server role, waiting for the client's hello
SslServerHello(s, inq) ==
    IF inq = << >> THEN SslRes("Interrupted", s, NoError, inq, << >>)
    ELSE LET m == Head(inq)
             common == IF m.type = "ClientHello" THEN m.arg \cap s.enabled ELSE {}
         IN  IF common = {}
             THEN SslRes("Failure", s, "no_shared_protocol", Tail(inq),
                         <<Msg("Alert", 0)>>)
             ELSE SslRes("Interrupted",
                         [s EXCEPT !.progress = 1, !.version = SetMax(common)],
                         NoError, Tail(inq),
                         <<Msg("ServerHello", SetMax(common))>>)

\* server role, waiting for the client's finished flight
SslServerFinish(s, inq, out) ==
    IF inq = << >> THEN SslRes("Interrupted", s, NoError, inq, out)
    ELSE LET m == Head(inq) IN
         IF m.type = "ClientFinished"
         THEN SslRes("Ok", [s EXCEPT !.progress = 2], NoError, Tail(inq), out)
         ELSE SslRes("Failure", s, "handshake_alert", Tail(inq), out)

\* SSL_do_handshake: one drive of the engine, up to the first would-block
SslDoHandshake(s, inq) ==
    IF s.role = "client"
    THEN IF s.progress = 0
         THEN IF s.enabled = {}
              THEN SslRes("Failure", s, "no_protocols_available", inq, << >>)
              ELSE SslClientRead([s EXCEPT !.progress = 1], inq,
                                 <<Msg("ClientHello", s.enabled)>>)
         ELSE SslClientRead(s, inq, << >>)
    ELSE IF s.progress = 0
         THEN LET r == SslServerHello(s, inq) IN
              IF r.tag = "Interrupted" /\ r.s.progress = 1
              THEN SslServerFinish(r.s, r.inq, r.out)
              ELSE r
         ELSE SslServerFinish(s, inq, << >>)

\* SslConnector::connect / SslAcceptor::accept: set up an engine state for
\* the factory's context and drive it once
SslFactoryHandshake(role, options, stream, inq, setup_ok) ==
    IF ~setup_ok
    THEN SslRes("SetupFailure", NoSsl, "setup_error_stack", inq, << >>)
    ELSE SslDoHandshake(SslNew(role, options, stream), inq)

\* ------------------------------------------------------------------------
\* Handshake wrapper (openssl.rs:81-135, 170-175, 219-224)
\* ------------------------------------------------------------------------
\* the transport each side hands to connect / accept
Endpoint(side) ==
    CASE side = "client"  -> "client_end"
      [] side = "server"  -> "server_end"
      [] side = "client2" -> "client2_end"
      [] side = "server2" -> "server2_end"

\* Result<TlsStream<S>, HandshakeError<S>> as the caller receives it
HRet(tag, s, error) == [tag |-> tag, s |-> s, error |-> error]

\* variant: Failure hands the engine's half-negotiated stream on to the caller
From_ssl_HandshakeError_keeps_stream(e) ==
    CASE e.tag = "SetupFailure" -> HRet("Failure", NoSsl, e.error)
      [] e.tag = "Failure"      -> HRet("Failure", e.s, e.error)
      [] e.tag = "Interrupted"  -> HRet("Interrupted", e.s, NoError)

\* variant: Interrupted wraps a handshake that starts over
From_ssl_HandshakeError_restart(e) ==
    CASE e.tag = "SetupFailure" -> HRet("Failure", NoSsl, e.error)
      [] e.tag = "Failure"      -> HRet("Failure", NoSsl, e.error)
      [] e.tag = "Interrupted"  ->
            HRet("Interrupted", [e.s EXCEPT !.progress = 0], NoError)

\* impl From<ssl::HandshakeError<S>> for HandshakeError<S> (lines 117-129)
From_ssl_HandshakeError(e) ==
    CASE e.tag = "SetupFailure" -> HRet("Failure", NoSsl, e.error)
      [] e.tag = "Failure"      -> HRet("Failure", NoSsl, e.error)
      [] e.tag = "Interrupted"  -> HRet("Interrupted", e.s, NoError)

\* what one wrapper call did: its return value, its effect on the transport
\* and the number of calls it made into the engine's handshake
HCall(ret, inq, out, drives) ==
    [ret |-> ret, inq |-> inq, out |-> out, drives |-> drives]

\* variant: handshake() drives the engine a second time when the first drive
\* would block
MidHandshakeTlsStream_handshake_retry(mid, inq) ==
    LET r1 == SslDoHandshake(mid, inq)
        r  == IF r1.tag = "Interrupted" THEN SslDoHandshake(r1.s, r1.inq) ELSE r1
    IN  HCall(IF r.tag = "Ok" THEN HRet("Ok", r.s, NoError)
              ELSE From_ssl_HandshakeError(r),
              r.inq, r1.out \o (IF r1.tag = "Interrupted" THEN r.out ELSE << >>),
              IF r1.tag = "Interrupted" THEN 2 ELSE 1)

\* MidHandshakeTlsStream::handshake (lines 104-109)
MidHandshakeTlsStream_handshake(mid, inq) ==
    LET r == SslDoHandshake(mid, inq) IN
    HCall(IF r.tag = "Ok" THEN HRet("Ok", r.s, NoError)
          ELSE From_ssl_HandshakeError(r),
          r.inq, r.out, 1)

\* TlsConnector::connect (lines 170-175)
TlsConnector_connect(options, stream, inq, setup_ok) ==
    LET r == SslFactoryHandshake("client", options, stream, inq, setup_ok) IN
    HCall(IF r.tag = "Ok" THEN HRet("Ok", r.s, NoError)
          ELSE From_ssl_HandshakeError(r),
          r.inq, r.out, 1)

\* TlsAcceptor::accept (lines 219-224)
TlsAcceptor_accept(options, stream, inq, setup_ok) ==
    LET r == SslFactoryHandshake("server", options, stream, inq, setup_ok) IN
    HCall(IF r.tag = "Ok" THEN HRet("Ok", r.s, NoError)
          ELSE From_ssl_HandshakeError(r),
          r.inq, r.out, 1)

\* MidHandshakeTlsStream::get_ref / get_mut (lines 92-98)
MidHandshakeTlsStream_get_ref(mid) == mid.stream

\* ------------------------------------------------------------------------
\* Established stream: the engine's record layer (external collaborator)
\* ------------------------------------------------------------------------
\* plaintext buffers the callers write
Bufs == {<<1, 2>>, <<3>>}
\* buffer lengths the callers read into
ReadSizes == {1, 2}

Min(a, b) == IF a < b THEN a ELSE b
Take(q, k) == SubSeq(q, 1, k)
Drop(q, k) == SubSeq(q, k + 1, Len(q))

\* result of one engine operation on an established stream: its return
\* value, the engine state, the unread input, the transport's write buffer
\* and the records the transport delivered to the peer
SRes(ret, s, inq, wbuf, deliver) ==
    [ret |-> ret, s |-> s, inq |-> inq, wbuf |-> wbuf, deliver |-> deliver]

IoOk(n, data)   == [ok |-> TRUE, n |-> n, data |-> data, kind |-> "none", inner |-> "none"]
IoErr(kind, inner) == [ok |-> FALSE, n |-> 0, data |-> << >>, kind |-> kind, inner |-> inner]

\* SslStream::write: one record per call, handed to the transport's write()
SslWrite(s, inq, wbuf, buf) ==
    IF s.sent_shutdown
    THEN SRes(IoErr("Other", "protocol_is_shutdown"), s, inq, wbuf, << >>)
    ELSE SRes(IoOk(Len(buf), << >>), s, inq,
              Append(wbuf, Msg("AppData", buf)), << >>)

\* SslStream::flush: the transport's flush()
SslFlush(s, inq, wbuf) ==
    SRes(IoOk(0, << >>), s, inq, << >>, wbuf)

\* SslStream::read into a buffer of n bytes
SslRead(s, inq, wbuf, n) ==
    IF s.pending # << >>
    THEN LET k == Min(n, Len(s.pending)) IN
         SRes(IoOk(k, Take(s.pending, k)),
              [s EXCEPT !.pending = Drop(@, k)], inq, wbuf, << >>)
    ELSE IF s.received_shutdown
    THEN SRes(IoOk(0, << >>), s, inq, wbuf, << >>)
    ELSE IF inq = << >>
    THEN SRes(IoErr("WouldBlock", "none"), s, inq, wbuf, << >>)
    ELSE LET m == Head(inq) IN
         IF m.type = "AppData"
         THEN LET k == Min(n, Len(m.arg)) IN
              SRes(IoOk(k, Take(m.arg, k)),
                   [s EXCEPT !.pending = Drop(m.arg, k)], Tail(inq), wbuf, << >>)
         ELSE IF m.type = "CloseNotify"
         THEN SRes(IoOk(0, << >>), [s EXCEPT !.received_shutdown = TRUE],
                   Tail(inq), wbuf, << >>)
         ELSE SRes(IoErr("Other", "unexpected_record"), s, Tail(inq), wbuf, << >>)

\* what can happen underneath one invocation of the shutdown primitive: the
\* transport fails, the transport cannot take the close notification yet, the
\* engine fails, or the engine reports Sent once more without progress
Faults == {"none", "stream", "want_write", "ssl", "sent"}
\* result of the shutdown primitive: Ok(Sent), Ok(Received) or Err(tag)
ShRes(tag, kind, s, inq, wbuf, deliver) ==
    [tag |-> tag, kind |-> kind, s |-> s, inq |-> inq, wbuf |-> wbuf,
     deliver |-> deliver]

\* SslStream::shutdown (SSL_shutdown): the first invocation sends the local
\* close notification, a later one looks for the peer's.  zr: a build of the
\* engine that reports a close notification found while reading as
\* ZeroReturn and skips application records that arrive before it.
SslShutdown(s, inq, wbuf, fault, zr) ==
    IF s.sent_shutdown /\ s.received_shutdown
    THEN ShRes("Received", "none", s, inq, wbuf, << >>)
    ELSE IF fault = "stream"
    THEN ShRes("Stream", "BrokenPipe", s, inq, wbuf, << >>)
    ELSE IF fault = "ssl"
    THEN ShRes("Ssl", "none", s, inq, wbuf, << >>)
    ELSE IF fault = "sent" /\ s.sent_shutdown
    THEN ShRes("Sent", "none", s, inq, wbuf, << >>)
    ELSE IF ~s.sent_shutdown
    THEN IF fault = "want_write"
         THEN ShRes("WantWrite", "WouldBlock", s, inq, wbuf, << >>)
         ELSE ShRes(IF s.received_shutdown THEN "Received" ELSE "Sent", "none",
                    [s EXCEPT !.sent_shutdown = TRUE], inq, << >>,
                    wbuf \o <<Msg("CloseNotify", 0)>>)
    ELSE IF inq = << >>
    THEN ShRes("WantRead", "WouldBlock", s, inq, wbuf, << >>)
    ELSE IF Head(inq).type = "CloseNotify"
    THEN ShRes(IF zr THEN "ZeroReturn" ELSE "Received", "none",
               [s EXCEPT !.received_shutdown = TRUE], Tail(inq), wbuf, << >>)
    ELSE \* a record other than the close notification is discarded
         IF zr THEN ShRes("WantRead", "WouldBlock", s, Tail(inq), wbuf, << >>)
         ELSE ShRes("Ssl", "none", s, Tail(inq), wbuf, << >>)

\* ------------------------------------------------------------------------
\* Established stream wrapper (openssl.rs:246-298)
\* ------------------------------------------------------------------------
\* io::Read for TlsStream (lines 284-288)
TlsStream_read(s, inq, wbuf, n) == SslRead(s, inq, wbuf, n)

\* variant: write() hands the buffer to the engine a second time
TlsStream_write_twice(s, inq, wbuf, buf) ==
    LET r1 == SslWrite(s, inq, wbuf, buf) IN SslWrite(r1.s, r1.inq, r1.wbuf, buf)

\* io::Write for TlsStream: write (lines 291-293)
TlsStream_write(s, inq, wbuf, buf) == SslWrite(s, inq, wbuf, buf)

\* io::Write for TlsStream: flush (lines 295-297)
TlsStream_flush(s, inq, wbuf) == SslFlush(s, inq, wbuf)

\* TlsStream::get_ref / get_mut (lines 275-281)
TlsStream_get_ref(s) == s.stream

\* variant: Sent ends the loop like Received
ShutdownMatch_sent_breaks(r) ==
    CASE r.tag = "Sent"       -> [ctl |-> "break", ret |-> IoOk(0, << >>)]
      [] r.tag = "Received"   -> [ctl |-> "break", ret |-> IoOk(0, << >>)]
      [] r.tag = "ZeroReturn" -> [ctl |-> "break", ret |-> IoOk(0, << >>)]
      [] r.tag = "Stream"     -> [ctl |-> "return", ret |-> IoErr(r.kind, "none")]
      [] r.tag = "WantRead"   -> [ctl |-> "return", ret |-> IoErr(r.kind, "none")]
      [] r.tag = "WantWrite"  -> [ctl |-> "return", ret |-> IoErr(r.kind, "none")]
      [] OTHER                -> [ctl |-> "return", ret |-> IoErr("Other", r.tag)]

\* variant: no arm for WantRead, which falls through to the generic one
ShutdownMatch_no_want_read(r) ==
    CASE r.tag = "Sent"       -> [ctl |-> "continue", ret |-> IoOk(0, << >>)]
      [] r.tag = "Received"   -> [ctl |-> "break", ret |-> IoOk(0, << >>)]
      [] r.tag = "ZeroReturn" -> [ctl |-> "break", ret |-> IoOk(0, << >>)]
      [] r.tag = "Stream"     -> [ctl |-> "return", ret |-> IoErr(r.kind, "none")]
      [] r.tag = "WantWrite"  -> [ctl |-> "return", ret |-> IoErr(r.kind, "none")]
      [] OTHER                -> [ctl |-> "return", ret |-> IoErr("Other", r.tag)]

\* variant: the arms of Sent and Received swapped
ShutdownMatch_swapped(r) ==
    CASE r.tag = "Sent"       -> [ctl |-> "break", ret |-> IoOk(0, << >>)]
      [] r.tag = "Received"   -> [ctl |-> "continue", ret |-> IoOk(0, << >>)]
      [] r.tag = "ZeroReturn" -> [ctl |-> "break", ret |-> IoOk(0, << >>)]
      [] r.tag = "Stream"     -> [ctl |-> "return", ret |-> IoErr(r.kind, "none")]
      [] r.tag = "WantRead"   -> [ctl |-> "return", ret |-> IoErr(r.kind, "none")]
      [] r.tag = "WantWrite"  -> [ctl |-> "return", ret |-> IoErr(r.kind, "none")]
      [] OTHER                -> [ctl |-> "return", ret |-> IoErr("Other", r.tag)]

\* variant: WantRead makes the loop invoke the primitive again
ShutdownMatch_want_read_spins(r) ==
    CASE r.tag = "Sent"       -> [ctl |-> "continue", ret |-> IoOk(0, << >>)]
      [] r.tag = "Received"   -> [ctl |-> "break", ret |-> IoOk(0, << >>)]
      [] r.tag = "ZeroReturn" -> [ctl |-> "break", ret |-> IoOk(0, << >>)]
      [] r.tag = "Stream"     -> [ctl |-> "return", ret |-> IoErr(r.kind, "none")]
      [] r.tag = "WantRead"   -> [ctl |-> "continue", ret |-> IoOk(0, << >>)]
      [] r.tag = "WantWrite"  -> [ctl |-> "return", ret |-> IoErr(r.kind, "none")]
      [] OTHER                -> [ctl |-> "return", ret |-> IoErr("Other", r.tag)]

\* the arms of the match in TlsStream::shutdown (lines 261-269)
ShutdownMatch(r) ==
    CASE r.tag = "Sent"       -> [ctl |-> "continue", ret |-> IoOk(0, << >>)]
      [] r.tag = "Received"   -> [ctl |-> "break", ret |-> IoOk(0, << >>)]
      [] r.tag = "ZeroReturn" -> [ctl |-> "break", ret |-> IoOk(0, << >>)]
      [] r.tag = "Stream"     -> [ctl |-> "return", ret |-> IoErr(r.kind, "none")]
      [] r.tag = "WantRead"   -> [ctl |-> "return", ret |-> IoErr(r.kind, "none")]
      [] r.tag = "WantWrite"  -> [ctl |-> "return", ret |-> IoErr(r.kind, "none")]
      [] OTHER                -> [ctl |-> "return", ret |-> IoErr("Other", r.tag)]

\* what one shutdown() call did: its return value, the stream afterwards, the
\* transport, and the results of the primitive it observed, in order
ShCall(ret, s, inq, wbuf, deliver, obs) ==
    [ret |-> ret, s |-> s, inq |-> inq, wbuf |-> wbuf, deliver |-> deliver,
     obs |-> obs]

\* the loop of TlsStream::shutdown (lines 260-272); fault strikes the
\* invocation numbered fault.at; a call still looping after MaxShutdownIters
\* invocations is recorded as not having returned
RECURSIVE shutdown_loop(_, _, _, _, _, _, _, _)
shutdown_loop(s, inq, wbuf, fault, zr, i, deliver, obs) ==
    IF i > MaxShutdownIters
    THEN ShCall(IoErr("NoReturn", "none"), s, inq, wbuf, deliver, obs)
    ELSE LET r == SslShutdown(s, inq, wbuf,
                              IF fault.at = i THEN fault.kind ELSE "none", zr)
             m == ShutdownMatch(r)
             seen == Append(obs, [tag |-> r.tag, kind |-> r.kind])
         IN  IF m.ctl = "continue"
             THEN shutdown_loop(r.s, r.inq, r.wbuf, fault, zr, i + 1,
                                deliver \o r.deliver, seen)
             ELSE ShCall(m.ret, r.s, r.inq, r.wbuf, deliver \o r.deliver, seen)

\* variant: shutdown() closes the transport and drops it from the stream
TlsStream_shutdown_drops_transport(s, inq, wbuf, fault, zr) ==
    LET c == shutdown_loop(s, inq, wbuf, fault, zr, 1, << >>, << >>) IN
    [c EXCEPT !.s.stream = "closed"]

\* TlsStream::shutdown (lines 259-273)
TlsStream_shutdown(s, inq, wbuf, fault, zr) ==
    shutdown_loop(s, inq, wbuf, fault, zr, 1, << >>, << >>)

\* a call meets at most one of them, at its first or its second invocation
\* of the primitive (without one, the second invocation is the last)
FaultChoices ==
    {[kind |-> "none", at |-> 0]} \cup [kind : Faults \ {"none"}, at : 1..2]

\* ------------------------------------------------------------------------
\* Identity material of a context (engine side of openssl.rs:140-150)
\* ------------------------------------------------------------------------
\* a parsed PKCS#12 bundle: leaf certificate, private key, chain as supplied
Pkcs12(cert, pkey, chain) == [cert |-> cert, pkey |-> pkey, chain |-> chain]

IdentityA == Pkcs12("certA", "keyA", <<"ca1", "ca2">>)
IdentityB == Pkcs12("certB", "keyB", <<"ca3">>)
\* a bundle whose private key belongs to another certificate
IdentityMismatch == Pkcs12("certA", "keyB", <<"ca1">>)
Identities == {IdentityA, IdentityB, IdentityMismatch}

KeyMatches(cert, pkey) ==
    <<cert, pkey>> \in {<<"certA", "keyA">>, <<"certB", "keyB">>}

\* the part of a context identity() works on
NoIdentity == [cert |-> "none", pkey |-> "none", chain |-> << >>]

CtxRes(ok, ctx) == [ok |-> ok, ctx |-> ctx]

\* SslContextBuilder::set_certificate; refused: the engine rejects the call
SslContextBuilder_set_certificate(ctx, cert, refused) ==
    IF refused THEN CtxRes(FALSE, ctx)
    ELSE CtxRes(TRUE, [ctx EXCEPT !.cert = cert])

\* SslContextBuilder::set_private_key; refused: the engine rejects the call
\* (an engine may already compare the key with the installed certificate
\* here)
SslContextBuilder_set_private_key(ctx, pkey, refused) ==
    IF refused THEN CtxRes(FALSE, ctx)
    ELSE CtxRes(TRUE, [ctx EXCEPT !.pkey = pkey])

\* SslContextBuilder::check_private_key: the installed key against the
\* installed certificate
SslContextBuilder_check_private_key(ctx) ==
    CtxRes(/\ ctx.cert # "none"
           /\ ctx.pkey # "none"
           /\ KeyMatches(ctx.cert, ctx.pkey), ctx)

\* SslContextBuilder::add_extra_chain_cert: appends to the extra chain
SslContextBuilder_add_extra_chain_cert(ctx, cert, refused) ==
    IF refused THEN CtxRes(FALSE, ctx)
    ELSE CtxRes(TRUE, [ctx EXCEPT !.chain = Append(@, cert)])

\* what can go wrong underneath one identity() call: the engine rejects one
\* of the steps (for add_extra_chain_cert: the at-th certificate)
IdFaults ==
    {[step |-> "none", at |-> 0], [step |-> "set_certificate", at |-> 0],
     [step |-> "set_private_key", at |-> 0]}
    \cup [step : {"add_extra_chain_cert"}, at : 1..2]

\* ------------------------------------------------------------------------
\* TlsConnectorBuilder::identity (openssl.rs:140-150)
\* ------------------------------------------------------------------------
\* Result<(), Error> of identity(): error names the step whose error stack
\* try! returned; ctx is the context the call leaves behind
IdRet(ok, error, ctx) == [ok |-> ok, error |-> error, ctx |-> ctx]

\* the for loop over pkcs12.0.chain (lines 145-147); i numbers the certificate
RECURSIVE add_chain(_, _, _, _)
add_chain(ctx, chain, fault, i) ==
    IF chain = << >> THEN IdRet(TRUE, "none", ctx)
    ELSE LET r == SslContextBuilder_add_extra_chain_cert(
                      ctx, Head(chain),
                      fault.step = "add_extra_chain_cert" /\ fault.at = i)
         IN  IF ~r.ok THEN IdRet(FALSE, "add_extra_chain_cert", r.ctx)
             ELSE add_chain(r.ctx, Tail(chain), fault, i + 1)

\* variant: the key is never checked against the certificate
TlsConnectorBuilder_identity_unchecked(ctx, pkcs12, fault) ==
    LET r1 == SslContextBuilder_set_certificate(
                  ctx, pkcs12.cert, fault.step = "set_certificate")
        r2 == SslContextBuilder_set_private_key(
                  r1.ctx, pkcs12.pkey, fault.step = "set_private_key")
    IN  IF ~r1.ok THEN IdRet(FALSE, "set_certificate", r1.ctx)
        ELSE IF ~r2.ok THEN IdRet(FALSE, "set_private_key", r2.ctx)
        ELSE add_chain(r2.ctx, pkcs12.chain, fault, 1)

\* variant: the chain certificates of earlier calls are cleared first
TlsConnectorBuilder_identity_clears_chain(ctx, pkcs12, fault) ==
    LET r1 == SslContextBuilder_set_certificate(
                  [ctx EXCEPT !.chain = << >>], pkcs12.cert,
                  fault.step = "set_certificate")
        r2 == SslContextBuilder_set_private_key(
                  r1.ctx, pkcs12.pkey, fault.step = "set_private_key")
        r3 == SslContextBuilder_check_private_key(r2.ctx)
    IN  IF ~r1.ok THEN IdRet(FALSE, "set_certificate", r1.ctx)
        ELSE IF ~r2.ok THEN IdRet(FALSE, "set_private_key", r2.ctx)
        ELSE IF ~r3.ok THEN IdRet(FALSE, "check_private_key", r3.ctx)
        ELSE add_chain(r3.ctx, pkcs12.chain, fault, 1)

\* variant: the chain certificates are appended before the key is checked
TlsConnectorBuilder_identity_chain_first(ctx, pkcs12, fault) ==
    LET r1 == SslContextBuilder_set_certificate(
                  ctx, pkcs12.cert, fault.step = "set_certificate")
        r2 == SslContextBuilder_set_private_key(
                  r1.ctx, pkcs12.pkey, fault.step = "set_private_key")
        r4 == add_chain(r2.ctx, pkcs12.chain, fault, 1)
        r3 == SslContextBuilder_check_private_key(r4.ctx)
    IN  IF ~r1.ok THEN IdRet(FALSE, "set_certificate", r1.ctx)
        ELSE IF ~r2.ok THEN IdRet(FALSE, "set_private_key", r2.ctx)
        ELSE IF ~r4.ok THEN r4
        ELSE IF ~r3.ok THEN IdRet(FALSE, "check_private_key", r3.ctx)
        ELSE r4

\* TlsConnectorBuilder::identity (lines 140-150): each step is a try!, so the
\* first failing step returns its error and the later steps are not run
TlsConnectorBuilder_identity(ctx, pkcs12, fault) ==
    LET r1 == SslContextBuilder_set_certificate(
                  ctx, pkcs12.cert, fault.step = "set_certificate")
        r2 == SslContextBuilder_set_private_key(
                  r1.ctx, pkcs12.pkey, fault.step = "set_private_key")
        r3 == SslContextBuilder_check_private_key(r2.ctx)
    IN  IF ~r1.ok THEN IdRet(FALSE, "set_certificate", r1.ctx)
        ELSE IF ~r2.ok THEN IdRet(FALSE, "set_private_key", r2.ctx)
        ELSE IF ~r3.ok THEN IdRet(FALSE, "check_private_key", r3.ctx)
        ELSE add_chain(r3.ctx, pkcs12.chain, fault, 1)

\* ------------------------------------------------------------------------
\* State
\* ------------------------------------------------------------------------
VARIABLES
    opts,       \* option bits of the connector's ("client") and the acceptor's
                \* ("server") context
    allowed,    \* the allow-list of the last supported_protocols call, if any
    built,      \* whether build() has turned the builder into a factory
    att,        \* what the caller holds for its handshake attempt
    net,        \* bytes in flight: net[side] is what side can read
    calls,      \* connect/accept/handshake calls made on the attempt
    drives,     \* calls made into the engine's handshake for the attempt
    flights,    \* handshake messages the side has put on the wire
    hist,       \* outcomes of the calls of the attempt, in order
    wbuf,       \* records written to the side's transport and not yet flushed
    sent,       \* plaintext bytes the side's write() calls accepted, in order
    recv,       \* plaintext bytes the side's read() calls returned, in order
    sd,         \* the latest shutdown() call: who made it, whether a shutdown
                \* of that stream had succeeded before, what the transport
                \* held, what the call returned, what it observed, whether
                \* it left the stream as it was
    shut_ok,    \* whether a shutdown() of the side has returned Ok
    opts0,      \* the option bits each context had when its builder was made
    ident,      \* certificate, private key and extra chain of the connector
                \* builder's context
    idhist      \* the identity() calls made on the connector builder, in
                \* order: the identity passed, what the call returned, the
                \* context before it

hsvars == <<att, net, calls, drives, flights, hist>>
stvars == <<wbuf, sent, recv, sd, shut_ok>>
idvars == <<ident, idhist>>
vars == <<opts, allowed, built, att, net, calls, drives, flights, hist,
          wbuf, sent, recv, sd, shut_ok, opts0, ident, idhist>>

NoAttempt == HRet("None", NoSsl, NoError)
NoShutdown == [called |-> FALSE, side |-> "none", again |-> FALSE,
               pre |-> "none", ret |-> IoOk(0, << >>), obs |-> << >>,
               same |-> TRUE]

\* what a stream's shutdown() will find: the peer's close notification already
\* read, nothing to read, or the type of the next record
ShutdownPre(s, inq) ==
    IF s.received_shutdown THEN "received"
    ELSE IF inq = << >> THEN "empty"
    ELSE Head(inq).type

\* the options SslConnectorBuilder::new and SslAcceptorBuilder::
\* mozilla_intermediate install on a fresh context
DefaultOptions == {SSL_OP_NO_SSLV2, SSL_OP_NO_SSLV3, SSL_OP_NO_COMPRESSION}

\* option states a builder is in before supported_protocols: the engine's
\* defaults, possibly with TLSv1.1 switched off through builder_mut()
\* (TlsConnectorBuilderExt / TlsAcceptorBuilderExt, lines 187-195, 236-244)
PriorOptions == {DefaultOptions, DefaultOptions \cup {SSL_OP_NO_TLSV1_1}}

InitWith(priors) ==
    /\ opts \in [Sides -> priors]
    /\ allowed = [s \in Sides |-> [called |-> FALSE, list |-> {}]]
    /\ built = [s \in Sides |-> FALSE]
    /\ att = [s \in Ends |-> NoAttempt]
    /\ net = [s \in Ends |-> << >>]
    /\ calls = [s \in Ends |-> 0]
    /\ drives = [s \in Ends |-> 0]
    /\ flights = [s \in Ends |-> 0]
    /\ hist = [s \in Ends |-> << >>]
    /\ wbuf = [s \in Sides |-> << >>]
    /\ sent = [s \in Sides |-> << >>]
    /\ recv = [s \in Sides |-> << >>]
    /\ sd = NoShutdown
    /\ shut_ok = [s \in Sides |-> FALSE]
    /\ opts0 = opts
    /\ ident = NoIdentity
    /\ idhist = << >>

Init == InitWith(PriorOptions)

\* ------------------------------------------------------------------------
\* Builders
\* ------------------------------------------------------------------------
BuilderCall(side, protocols) ==
    /\ ~built[side]
    /\ opts' = [opts EXCEPT ![side] = supported_protocols(protocols, @)]
    /\ allowed' = [allowed EXCEPT
                     ![side] = [called |-> TRUE, list |-> SeqToSet(protocols)]]
    /\ UNCHANGED <<built, hsvars, stvars, opts0, idvars>>

\* TlsConnectorBuilder::supported_protocols (lines 152-155)
TlsConnectorBuilder_supported_protocols ==
    \E protocols \in ProtocolLists : BuilderCall("client", protocols)

\* TlsAcceptorBuilder::supported_protocols (lines 200-203)
TlsAcceptorBuilder_supported_protocols ==
    \E protocols \in ProtocolLists : BuilderCall("server", protocols)

\* TlsConnectorBuilder::build / TlsAcceptorBuilder::build (157-159, 205-207)
Build(side) ==
    /\ ~built[side]
    /\ built' = [built EXCEPT ![side] = TRUE]
    /\ UNCHANGED <<opts, allowed, hsvars, stvars, opts0, idvars>>

\* TlsConnectorBuilder::identity (lines 140-150), called on the builder
Identity(pkcs12, fault) ==
    /\ ~built["client"]
    /\ Len(idhist) < MaxIdentityCalls
    /\ LET r == TlsConnectorBuilder_identity(ident, pkcs12, fault) IN
       /\ ident' = r.ctx
       /\ idhist' = Append(idhist, [id |-> pkcs12, ok |-> r.ok,
                                    error |-> r.error, pre |-> ident])
    /\ UNCHANGED <<opts, allowed, built, hsvars, stvars, opts0>>

\* ------------------------------------------------------------------------
\* Handshake attempts
\* ------------------------------------------------------------------------
\* variant: an attempt that negotiated a version pins the shared context to
\* that version
Returned_pins_context(side, c) ==
    /\ att' = [att EXCEPT ![side] = c.ret]
    /\ net' = [net EXCEPT ![side] = c.inq, ![Peer(side)] = @ \o c.out]
    /\ calls' = [calls EXCEPT ![side] = @ + 1]
    /\ drives' = [drives EXCEPT ![side] = @ + c.drives]
    /\ flights' = [flights EXCEPT ![side] = @ + Len(c.out)]
    /\ hist' = [hist EXCEPT ![side] = Append(@, c.ret.tag)]
    /\ opts' = [opts EXCEPT
                  ![Factory(side)] =
                      IF c.ret.tag = "Ok"
                      THEN @ \cup {VersionFlag(v) :
                                      v \in Versions \ {c.ret.s.version}}
                      ELSE @]
    /\ UNCHANGED <<allowed, built, stvars, opts0, idvars>>

\* what a connect / accept / handshake call leaves behind: the caller's new
\* value and the transports; the factory is borrowed immutably (&self)
Returned(side, c) ==
    /\ att' = [att EXCEPT ![side] = c.ret]
    /\ net' = [net EXCEPT ![side] = c.inq, ![Peer(side)] = @ \o c.out]
    /\ calls' = [calls EXCEPT ![side] = @ + 1]
    /\ drives' = [drives EXCEPT ![side] = @ + c.drives]
    /\ flights' = [flights EXCEPT ![side] = @ + Len(c.out)]
    /\ hist' = [hist EXCEPT ![side] = Append(@, c.ret.tag)]
    /\ UNCHANGED <<opts, allowed, built, stvars, opts0, idvars>>

\* a connect() through the connector, on the transport of end
ConnectOn(end, setup_ok) ==
    /\ built["client"]
    /\ att[end].tag = "None"
    /\ Returned(end, TlsConnector_connect(opts["client"], Endpoint(end),
                                          net[end], setup_ok))

\* an accept() through the acceptor, on the transport of end
AcceptOn(end, setup_ok) ==
    /\ built["server"]
    /\ att[end].tag = "None"
    /\ Returned(end, TlsAcceptor_accept(opts["server"], Endpoint(end),
                                        net[end], setup_ok))

Connect(setup_ok) == ConnectOn("client", setup_ok)

Accept(setup_ok) == AcceptOn("server", setup_ok)

HandshakeCall(side) ==
    /\ att[side].tag = "Interrupted"
    /\ Returned(side, MidHandshakeTlsStream_handshake(att[side].s, net[side]))

\* the caller retries once its transport has become readable
Handshake(side) ==
    /\ net[side] # << >>
    /\ HandshakeCall(side)

\* the caller retries although nothing has arrived
HandshakeEarly(side) ==
    /\ net[side] = << >>
    /\ calls[side] < MaxCalls
    /\ HandshakeCall(side)

\* ------------------------------------------------------------------------
\* Established streams
\* ------------------------------------------------------------------------
StreamReturned(side, r) ==
    /\ att' = [att EXCEPT ![side].s = r.s]
    /\ net' = [net EXCEPT ![side] = r.inq, ![Peer(side)] = @ \o r.deliver]
    /\ wbuf' = [wbuf EXCEPT ![side] = r.wbuf]
    /\ UNCHANGED <<opts, allowed, built, calls, drives, flights, hist, opts0,
                   idvars>>

Write(side, buf) ==
    /\ att[side].tag = "Ok"
    /\ Len(sent[side]) + Len(buf) <= MaxBytes
    /\ LET r == TlsStream_write(att[side].s, net[side], wbuf[side], buf) IN
       /\ StreamReturned(side, r)
       /\ sent' = [sent EXCEPT ![side] = @ \o Take(buf, r.ret.n)]
    /\ UNCHANGED <<recv, sd, shut_ok>>

Flush(side) ==
    /\ att[side].tag = "Ok"
    /\ StreamReturned(side, TlsStream_flush(att[side].s, net[side], wbuf[side]))
    /\ UNCHANGED <<sent, recv, sd, shut_ok>>

Read(side, n) ==
    /\ att[side].tag = "Ok"
    /\ LET r == TlsStream_read(att[side].s, net[side], wbuf[side], n) IN
       /\ StreamReturned(side, r)
       /\ recv' = [recv EXCEPT ![side] = @ \o r.ret.data]
    /\ UNCHANGED <<sent, sd, shut_ok>>

Shutdown(side, fault, zr) ==
    /\ att[side].tag = "Ok"
    /\ LET r == TlsStream_shutdown(att[side].s, net[side], wbuf[side], fault, zr) IN
       /\ StreamReturned(side, r)
       /\ sd' = [called |-> TRUE, side |-> side, again |-> shut_ok[side],
                 pre |-> ShutdownPre(att[side].s, net[side]),
                 ret |-> r.ret, obs |-> r.obs, same |-> r.s = att[side].s]
       /\ shut_ok' = [shut_ok EXCEPT ![side] = @ \/ r.ret.ok]
    /\ UNCHANGED <<sent, recv>>

Next ==
    \/ TlsConnectorBuilder_supported_protocols
    \/ TlsAcceptorBuilder_supported_protocols
    \/ \E side \in Sides : Build(side)
    \/ \E ok \in BOOLEAN : Connect(ok)
    \/ \E ok \in BOOLEAN : Accept(ok)
    \/ \E side \in Sides : Handshake(side)
    \/ \E side \in Sides : HandshakeEarly(side)

Spec == Init /\ [][Next]_vars

\* The protocol selector alone, from every option state builder_mut() can
\* leave a context in (the same one on both contexts)
InitAnyOptions == \E o \in SUBSET SslOption_all : InitWith({o})

NextBuilders ==
    \/ TlsConnectorBuilder_supported_protocols
    \/ TlsAcceptorBuilder_supported_protocols

SpecBuilders == InitAnyOptions /\ [][NextBuilders]_vars

\* The whole life of one connection in the end-to-end configuration: both
\* builders start from the engine's defaults and are restricted to TLSv1.2,
\* the callers resume a handshake when their transport is readable, and the
\* client is the side that writes application data
InitDefault == InitWith({DefaultOptions})

NextStream ==
    \/ \E side \in Sides : BuilderCall(side, <<"Tlsv12">>)
    \/ \E side \in Sides : Build(side)
    \/ \E ok \in BOOLEAN : Connect(ok)
    \/ \E ok \in BOOLEAN : Accept(ok)
    \/ \E side \in Sides : Handshake(side)
    \/ \E buf \in Bufs : Write("client", buf)
    \/ \E side \in Sides : Flush(side)
    \/ \E side \in Sides, n \in ReadSizes : Read(side, n)
    \/ \E side \in Sides, fault \in FaultChoices, zr \in BOOLEAN :
          Shutdown(side, fault, zr)

SpecStream == InitDefault /\ [][NextStream]_vars

\* The same connection over an in-memory duplex transport: nothing fails
\* underneath the engine, and both callers keep driving their handshake
NoFault == [kind |-> "none", at |-> 0]

NextDuplex ==
    \/ \E side \in Sides : BuilderCall(side, <<"Tlsv12">>)
    \/ \E side \in Sides : Build(side)
    \/ Connect(TRUE)
    \/ Accept(TRUE)
    \/ \E side \in Sides : Handshake(side)
    \/ \E buf \in Bufs : Write("client", buf)
    \/ \E side \in Sides : Flush(side)
    \/ \E side \in Sides, n \in ReadSizes : Read(side, n)
    \/ \E side \in Sides, zr \in BOOLEAN : Shutdown(side, NoFault, zr)

SpecDuplex ==
    /\ InitDefault
    /\ [][NextDuplex]_vars
    /\ WF_vars(Connect(TRUE))
    /\ WF_vars(Accept(TRUE))
    /\ \A side \in Sides : WF_vars(Handshake(side))

\* The connector builder's identity() calls, with every way the engine can
\* reject a step, up to build()
NextIdentity ==
    \/ \E pkcs12 \in Identities, fault \in IdFaults : Identity(pkcs12, fault)
    \/ Build("client")

SpecIdentity == InitDefault /\ [][NextIdentity]_vars

\* Two connections through the same connector and the same acceptor, each on
\* its own pair of transports, their calls interleaved in every order
SharedLists == {<<"Tlsv12">>, <<"Tlsv10", "Tlsv12">>}

NextShared ==
    \/ \E side \in Sides, protocols \in SharedLists :
          BuilderCall(side, protocols)
    \/ Identity(IdentityA, [step |-> "none", at |-> 0])
    \/ \E side \in Sides : Build(side)
    \/ \E end \in {"client", "client2"}, ok \in BOOLEAN : ConnectOn(end, ok)
    \/ \E end \in {"server", "server2"}, ok \in BOOLEAN : AcceptOn(end, ok)
    \/ \E end \in Ends : Handshake(end)

SpecShared == InitDefault /\ [][NextShared]_vars

\* ------------------------------------------------------------------------
\* Properties
\* ------------------------------------------------------------------------
\* C1: after supported_protocols(L) the context's disabling flag is set for
\* every version of {SSLv3, TLSv1.0, TLSv1.1, TLSv1.2} that is not in L and
\* cleared for every version that is in L, whatever the options were before.
C1_FlagsFollowAllowList ==
    \A side \in Sides :
        allowed[side].called =>
            \A p \in Protocol :
                (ProtocolOp(p) \in opts[side]) <=> (p \notin allowed[side].list)

AllowedVersions(side) == {ProtocolVersion(p) : p \in allowed[side].list}

\* C2: a handshake that completes on a connector or acceptor configured with
\* supported_protocols(L) has negotiated a version that is a member of L; in
\* particular with L empty no attempt ever ends in a Stream.
C2_NegotiatedVersionAllowed ==
    \A side \in Sides :
        (allowed[side].called /\ att[side].tag = "Ok") =>
            att[side].s.version \in AllowedVersions(side)

\* C3: when the connector's and the acceptor's allow-lists have no version in
\* common, neither connect nor accept nor a resumed handshake produces a
\* Stream, and an attempt that has ended has ended in Failure.
C3_DisjointListsFail ==
    (/\ allowed["client"].called
     /\ allowed["server"].called
     /\ allowed["client"].list \cap allowed["server"].list = {}) =>
        \A side \in Sides : att[side].tag \in {"None", "Interrupted", "Failure"}

\* C4: every connect, accept or handshake call ends in exactly one of a
\* Stream, Interrupted carrying the suspended handshake, or Failure carrying
\* only an error; a Failure is terminal: nothing is left to resume and no
\* Stream is ever obtained from an attempt that has reported Failure.
C4_OutcomeShape ==
    \A side \in Sides :
        calls[side] > 0 =>
            /\ att[side].tag \in {"Ok", "Interrupted", "Failure"}
            /\ hist[side][Len(hist[side])] = att[side].tag
            /\ att[side].tag = "Ok" =>
                   /\ att[side].s # NoSsl
                   /\ att[side].s.progress = 2
                   /\ att[side].error = NoError
            /\ att[side].tag = "Interrupted" =>
                   /\ att[side].s # NoSsl
                   /\ att[side].s.progress < 2
                   /\ att[side].error = NoError
            /\ att[side].tag = "Failure" =>
                   /\ att[side].s = NoSsl
                   /\ att[side].error # NoError
            /\ \A i \in 1..Len(hist[side]) :
                   hist[side][i] = "Failure" => i = Len(hist[side])

C4_FailureTerminal ==
    [][\A side \in Sides :
          att[side].tag = "Failure" =>
              /\ att'[side] = att[side]
              /\ calls'[side] = calls[side]]_vars

C4_ThreeOutcomes == []C4_OutcomeShape /\ C4_FailureTerminal

\* a handshake that failed after having been suspended, and a setup failure
C4_Witness ==
    /\ att["client"].tag = "Failure"
    /\ Len(hist["client"]) >= 2
    /\ att["server"].error \in {"setup_error_stack", "no_shared_protocol"}

\* C5: no implicit retry: each connect, accept or handshake call drives the
\* engine's handshake exactly once and returns on the first would-block, so an
\* attempt whose connect was interrupted and whose following handshake
\* returned the Stream took exactly two driving calls.
C5_OneDrivePerCall ==
    \A side \in Sides :
        /\ drives[side] = calls[side]
        /\ calls[side] = Len(hist[side])
        /\ hist[side] = <<"Interrupted", "Ok">> =>
              calls[side] = 2 /\ drives[side] = 2

C5_Witness ==
    /\ hist["client"] = <<"Interrupted", "Ok">>
    /\ drives["client"] = 2

\* C6: a suspended handshake holds exactly the transport that was passed in
\* and exactly the negotiation reached so far: the suspension neither resets
\* nor advances the handshake's progress, over any number of suspensions.
C6_MidState ==
    \A side \in Sides :
        att[side].tag = "Interrupted" =>
            /\ MidHandshakeTlsStream_get_ref(att[side].s) = Endpoint(side)
            /\ att[side].s.role = side
            /\ att[side].s.enabled = Enabled(opts[side])
            /\ att[side].s.progress = flights[side]

C6_MidStep ==
    [][\A side \in Sides :
          (att[side].tag = "Interrupted" /\ att'[side].tag = "Interrupted") =>
              /\ att'[side].s.stream = att[side].s.stream
              /\ att'[side].s.enabled = att[side].s.enabled
              /\ att'[side].s.progress >= att[side].s.progress
              /\ net'[side] = net[side] => att'[side].s = att[side].s]_vars

C6_SuspensionPreserves == []C6_MidState /\ C6_MidStep

\* two suspensions in a row, the second one after the server's hello went out
C6_Witness ==
    /\ hist["server"] = <<"Interrupted", "Interrupted">>
    /\ att["server"].s.progress = 1
    /\ att["server"].s.stream = "server_end"

LastObs == sd.obs[Len(sd.obs)]

\* C7: shutdown returns Ok only after the primitive has reported Received or
\* ZeroReturn; every Sent makes it invoke the primitive again, so it never
\* returns Ok having observed only Sent results.
C7_OkOnlyAfterPeerClose ==
    sd.called =>
        /\ Len(sd.obs) >= 1
        /\ \A i \in 1..(Len(sd.obs) - 1) : sd.obs[i].tag = "Sent"
        /\ LastObs.tag # "Sent"
        /\ sd.ret.ok => LastObs.tag \in {"Received", "ZeroReturn"}

\* a shutdown that returned Ok after Sent, Sent again, then the peer's close
C7_Witness ==
    /\ sd.called /\ sd.ret.ok
    /\ Len(sd.obs) = 3
    /\ sd.obs[1].tag = "Sent" /\ sd.obs[2].tag = "Sent"

\* C8: when the primitive fails, shutdown returns at that invocation: a
\* transport error or a would-block signal (WantRead / WantWrite) comes back
\* as the transport's own I/O error, same kind, and every other error of the
\* engine comes back as an I/O error of kind Other wrapping it.
C8_ErrorMapping ==
    sd.called =>
        /\ \A i \in 1..(Len(sd.obs) - 1) : sd.obs[i].tag = "Sent"
        /\ ~sd.ret.ok <=> LastObs.tag \notin {"Received", "ZeroReturn"}
        /\ LastObs.tag \in {"Stream", "WantRead", "WantWrite"} =>
               sd.ret.kind = LastObs.kind /\ sd.ret.inner = "none"
        /\ LastObs.tag \notin {"Received", "ZeroReturn", "Stream", "WantRead",
                               "WantWrite"} =>
               sd.ret.kind = "Other" /\ sd.ret.inner = LastObs.tag

\* a would-block met while waiting for the peer's close notification
C8_Witness ==
    /\ sd.called /\ ~sd.ret.ok
    /\ Len(sd.obs) = 2
    /\ LastObs.tag = "WantRead"
    /\ sd.ret.kind = "WouldBlock"

\* C9: shutdown() on a Stream whose shutdown has already succeeded returns
\* (success again, or an error value), does not loop forever and leaves the
\* Stream as it was: closed, on the same transport.
C9_ShutdownAgain ==
    (sd.called /\ sd.again) =>
        /\ sd.ret.kind # "NoReturn"
        /\ sd.ret.ok \/ sd.ret.kind \in {"Other", "WouldBlock", "BrokenPipe"}
        /\ sd.same
        /\ att[sd.side].s.sent_shutdown /\ att[sd.side].s.received_shutdown
        /\ TlsStream_get_ref(att[sd.side].s) = Endpoint(sd.side)

C9_Witness ==
    /\ sd.called /\ sd.again /\ sd.ret.ok
    /\ shut_ok["client"] /\ shut_ok["server"]

IsPrefix(p, q) == Len(p) <= Len(q) /\ SubSeq(q, 1, Len(p)) = p

\* the bytes the server has read are the first bytes the client wrote
DataInOrder ==
    /\ IsPrefix(recv["server"], sent["client"])
    /\ recv["client"] = << >>

\* ... as long as the server has not started its own shutdown (from then on
\* the engine drops application records while it looks for the peer's close
\* notification)
C10_DataInOrder ==
    /\ (att["server"].tag = "Ok" /\ ~att["server"].s.sent_shutdown) =>
           IsPrefix(recv["server"], sent["client"])
    /\ recv["client"] = << >>

\* a shutdown() succeeds when the peer's close notification is already read
\* or is the next record; when nothing has arrived it returns would-block
C10_ShutdownAfterPeerClose ==
    sd.called =>
        /\ sd.pre \in {"received", "CloseNotify"} => sd.ret.ok
        /\ sd.pre = "empty" =>
               /\ ~sd.ret.ok
               /\ sd.ret.kind = "WouldBlock"
               /\ LastObs.tag = "WantRead"

BothTlsv12 ==
    \A side \in Sides :
        allowed[side].called /\ allowed[side].list = {"Tlsv12"} /\ built[side]

C10_BothReachStream ==
    BothTlsv12 ~> (\A side \in Sides : att[side].tag = "Ok")

\* C10 (as amended): both sides restricted to {TLSv1.2} eventually reach a
\* Stream; the bytes one side wrote and flushed are read by the peer, before
\* the peer's own shutdown, identical and in order; shutdown() returns
\* success on a side once the peer's close notification has reached it, and
\* the would-block error of the transport when nothing has arrived yet.
C10_EndToEnd ==
    /\ []C10_DataInOrder
    /\ []C10_ShutdownAfterPeerClose
    /\ C10_BothReachStream

\* C10 (as stated): the bytes arrive identical and in order and every
\* shutdown() on either side returns success, whichever side calls it first.
C10_AsStated ==
    /\ DataInOrder
    /\ sd.called => sd.ret.ok

\* everything the client wrote was read, and both sides' shutdown succeeded,
\* the second caller's at once and the first caller's when called again
C10_Witness ==
    /\ BothTlsv12
    /\ sent["client"] = <<1, 2, 3>> /\ recv["server"] = <<1, 2, 3>>
    /\ shut_ok["client"] /\ shut_ok["server"]
    /\ sd.called /\ sd.ret.ok /\ sd.pre = "CloseNotify" /\ Len(sd.obs) = 1

\* the two attempts made through the factory of a role
SameFactory(e1, e2) == e1 # e2 /\ Factory(e1) = Factory(e2)

\* the factory is left as build() made it
C11_FactoryUnmodified ==
    [][\A side \in Sides :
          built[side] =>
              /\ built'[side]
              /\ opts'[side] = opts[side]
              /\ allowed'[side] = allowed[side]
              /\ side = "client" => ident' = ident]_vars

\* a call of one attempt touches nothing of the other connection
C11_OtherAttemptsUntouched ==
    [][\A end \in Ends :
          calls'[end] # calls[end] =>
              \A other \in Ends \ {end, Peer(end)} :
                  /\ att'[other] = att[other]
                  /\ net'[other] = net[other]
                  /\ calls'[other] = calls[other]
                  /\ hist'[other] = hist[other]]_vars

\* what an attempt holds comes from the factory and its own transport: two
\* attempts through one factory that met the same on their transports hold
\* the same, each on its own transport
C11_OwnTransportOnly ==
    /\ \A end \in Ends :
          att[end].tag \in {"Ok", "Interrupted"} =>
              /\ att[end].s.stream = Endpoint(end)
              /\ att[end].s.role = Factory(end)
              /\ att[end].s.enabled = Enabled(opts[Factory(end)])
    /\ \A e1, e2 \in Ends :
          (/\ SameFactory(e1, e2)
           /\ hist[e1] = hist[e2]
           /\ net[e1] = net[e2]
           /\ flights[e1] = flights[e2]) =>
              /\ att[e1].tag = att[e2].tag
              /\ att[e1].error = att[e2].error
              /\ att[e1].tag \in {"Ok", "Interrupted"} =>
                     [att[e1].s EXCEPT !.stream = "any"] =
                         [att[e2].s EXCEPT !.stream = "any"]
    /\ \A e1, e2 \in Ends :
          (SameFactory(e1, e2) /\ att[e1].tag = "Ok" /\ att[e2].tag = "Ok") =>
              att[e1].s.version = att[e2].s.version

\* C11: a finalized connector or acceptor is never modified by connect /
\* accept: however the calls of two attempts made through the same factory
\* interleave, each on its own transport, the factory's identity and options
\* stay as they were, a call of one attempt changes nothing of the other, and
\* what each attempt returns is determined by the factory and its own
\* transport.
C11_SharedFactory ==
    /\ C11_FactoryUnmodified
    /\ C11_OtherAttemptsUntouched
    /\ []C11_OwnTransportOnly

\* one connection established on both sides while the other, made through
\* the same two factories, is suspended on the connector side and has failed
\* on the acceptor side
C11_Witness ==
    /\ att["client"].tag = "Ok" /\ att["server"].tag = "Ok"
    /\ att["client2"].tag = "Interrupted" /\ att["server2"].tag = "Failure"
    /\ ident.cert = "certA"

ProtocolBits(options) == options \cap ProtocolFlags

\* C12: after supported_protocols(L1) followed by supported_protocols(L2)
\* (and after any longer sequence of calls) the protocol-disabling flags are
\* those supported_protocols(L2) alone leaves on the initial option state;
\* so a repeated call changes nothing and a version allowed only by an
\* earlier call is disabled.
C12_LastCallWins ==
    \A side \in Sides :
        allowed[side].called =>
            \A protocols \in ProtocolLists :
                SeqToSet(protocols) = allowed[side].list =>
                    ProtocolBits(opts[side]) =
                        ProtocolBits(supported_protocols(protocols, opts0[side]))

\* C13: after one or more supported_protocols calls, whatever the
\* allow-lists, SSLv2 is disabled on the context.
C13_Sslv2Disabled ==
    \A side \in Sides :
        allowed[side].called =>
            /\ SSL_OP_NO_SSLV2 \in opts[side]
            /\ 0 \notin Enabled(opts[side])

\* a context that had SSLv2 enabled before the calls
C13_Witness ==
    /\ allowed["client"].called
    /\ SSL_OP_NO_SSLV2 \notin opts0["client"]
    /\ SSL_OP_NO_SSLV2 \in opts["client"]
    /\ allowed["client"].list = {"Sslv3", "Tlsv10"}

\* C14: after any sequence of read, write, flush and shutdown calls on a
\* Stream, whether shutdown succeeded or returned an error, get_ref /
\* get_mut return the transport the Stream was established on.
C14_TransportKept ==
    \A side \in Sides :
        att[side].tag = "Ok" =>
            TlsStream_get_ref(att[side].s) = Endpoint(side)

\* data written and read, a shutdown that succeeded on one side and a later
\* shutdown that returned an error
C14_Witness ==
    /\ sent["client"] # << >> /\ recv["server"] # << >>
    /\ \E side \in Sides : shut_ok[side]
    /\ sd.called /\ ~sd.ret.ok
    /\ TlsStream_get_ref(att[sd.side].s) = Endpoint(sd.side)

\* the identity() call numbered i left the context post behind
IdPost(i) == IF i < Len(idhist) THEN idhist[i + 1].pre ELSE ident

IdMatches(pkcs12) == KeyMatches(pkcs12.cert, pkcs12.pkey)

\* C15: identity(id) returns an error at that call whenever id's private key
\* does not match id's leaf certificate, and returns Ok only when the key
\* matches and every chain certificate of id has been added.
C15_MismatchFailsAtCall ==
    \A i \in 1..Len(idhist) :
        LET call == idhist[i] IN
        /\ ~IdMatches(call.id) => ~call.ok
        /\ call.ok =>
               /\ IdMatches(call.id)
               /\ IdPost(i).cert = call.id.cert
               /\ IdPost(i).pkey = call.id.pkey
               /\ IdPost(i).chain = call.pre.chain \o call.id.chain

\* a mismatching identity rejected after a matching one was accepted
C15_Witness ==
    /\ Len(idhist) = 2
    /\ idhist[1].id = IdentityB /\ idhist[1].ok
    /\ idhist[2].id = IdentityMismatch /\ ~idhist[2].ok
    /\ ~built["client"]

\* C16: two successful identity() calls, A then B, leave the builder with
\* B's certificate and B's private key and an extra chain that is the chain
\* before the calls, then A's chain, then B's chain, each in the order
\* supplied.
C16_ChainAccumulates ==
    \A i \in 1..(Len(idhist) - 1) :
        LET a == idhist[i]
            b == idhist[i + 1]
        IN  (a.ok /\ b.ok) =>
                /\ IdPost(i + 1).cert = b.id.cert
                /\ IdPost(i + 1).pkey = b.id.pkey
                /\ IdPost(i + 1).chain = a.pre.chain \o a.id.chain \o b.id.chain

C16_Witness ==
    /\ Len(idhist) = 2
    /\ idhist[1].id = IdentityA /\ idhist[1].ok
    /\ idhist[2].id = IdentityB /\ idhist[2].ok
    /\ ident = [cert |-> "certB", pkey |-> "keyB",
                chain |-> <<"ca1", "ca2", "ca3">>]

\* C17: shutdown() returns: it invokes the primitive once more only after a
\* Sent, so the invocations of a call are its Sent results plus one, and
\* with nothing to read from the peer it returns an error (would-block when
\* the transport reported would-block) instead of invoking again.
C17_ShutdownReturns ==
    sd.called =>
        /\ sd.ret.kind # "NoReturn"
        /\ Len(sd.obs) =
               Cardinality({i \in 1..Len(sd.obs) : sd.obs[i].tag = "Sent"}) + 1
        /\ Len(sd.obs) <= MaxShutdownIters
        /\ sd.pre = "empty" =>
               /\ ~sd.ret.ok
               /\ sd.obs[Len(sd.obs)].tag \in {"WantRead", "WantWrite"} =>
                      sd.ret.kind = "WouldBlock"

\* Sent twice, then nothing to read: the call returned would-block at its
\* third invocation
C17_Witness ==
    /\ sd.called /\ sd.pre = "empty"
    /\ Len(sd.obs) = 3
    /\ sd.obs[2].tag = "Sent" /\ sd.obs[3].tag = "WantRead"
    /\ sd.ret.kind = "WouldBlock"

\* C18: supported_protocols changes only protocol-disabling flags: after any
\* sequence of calls the option bits outside these flags are the ones the
\* context had before, none lost and none added.
C18_OtherOptionsKept ==
    \A side \in Sides :
        opts[side] \ ProtocolFlags = opts0[side] \ ProtocolFlags

\* the acceptor's baseline option outside the protocol flags, still set after
\* calls that changed protocol flags
C18_Witness ==
    /\ allowed["server"].called
    /\ SSL_OP_NO_COMPRESSION \in opts0["server"]
    /\ SSL_OP_NO_COMPRESSION \in opts["server"]
    /\ ProtocolBits(opts["server"]) # ProtocolBits(opts0["server"])

\* C19: identity() sets the certificate, sets the private key, checks that
\* they match and then appends the chain certificates one by one, and stops
\* at the first step that fails: a call that fails at the check leaves the
\* new certificate and key installed and the extra chain as it was.
C19_StopsAtFirstFailure ==
    \A i \in 1..Len(idhist) :
        LET call == idhist[i]
            id   == call.id
            pre  == call.pre
            post == IdPost(i)
        IN  /\ call.error = "set_certificate" => post = pre
            /\ call.error = "set_private_key" =>
                   post = [pre EXCEPT !.cert = id.cert]
            /\ call.error = "check_private_key" =>
                   /\ ~IdMatches(id)
                   /\ post = [pre EXCEPT !.cert = id.cert, !.pkey = id.pkey]
            /\ call.error = "add_extra_chain_cert" =>
                   /\ IdMatches(id)
                   /\ post.cert = id.cert /\ post.pkey = id.pkey
                   /\ \E k \in 0..(Len(id.chain) - 1) :
                          post.chain = pre.chain \o SubSeq(id.chain, 1, k)
            /\ call.ok <=> call.error = "none"

\* a call that failed at the check after an earlier call had succeeded
C19_Witness ==
    /\ Len(idhist) = 2
    /\ idhist[1].id = IdentityA /\ idhist[1].ok
    /\ idhist[2].id = IdentityMismatch
    /\ idhist[2].error = "check_private_key"
    /\ ident = [cert |-> "certA", pkey |-> "keyB", chain |-> <<"ca1", "ca2">>]

====
